---- MODULE Spec2Model ----
(***************************************************************************)
(* The action-execution and error-recovery loop of the autoclicker:        *)
(* ActionController.run_automation (modules/action_controller.py) together *)
(* with ErrorRecoveryManager (modules/error_recovery.py).                  *)
(*                                                                         *)
(* One run of run_automation is a process whose position is pc:            *)
(*   "loop"    at the head of the while loop (line 188)                    *)
(*   "perform" inside perform_action, called at line 222                   *)
(*   "recover" after a failed perform_action, before line 250              *)
(*   "advance" at line 310, about to move to the next action               *)
(*   "done"    after the loop, in the finally block                        *)
(* Python dicts are functions whose DOMAIN is the set of keys present.     *)
(***************************************************************************)
EXTENDS Integers, Sequences, FiniteSets, TLC

\* ---------------------------------------------------------------- bounds
MaxActions == 3       \* longest action list
MaxAttempts == 5      \* perform_action calls followed in one run
MaxCycleLimit == 2    \* largest max_cycles argument
MaxFailureCap == 3    \* largest max_failures argument
MaxLongActions == 7   \* longest action list of the runs that pass a second checkpoint
MaxLongAttempts == 14 \* perform_action calls followed in one of those runs
MaxCadenceActions == 27 \* longest action list of the runs that show the checkpoint cadence

\* ------------------------------------------------------- python helpers
\* dict.get(k, default)
Get(d, k, default) == IF k \in DOMAIN d THEN d[k] ELSE default

\* Python's None, where an action dict is expected
None == [type |-> "None"]

\* RecoveryStrategy enum values
RecoveryStrategy == {"retry", "wait", "fallback", "checkpoint", "skip", "abort"}

\* ------------------------------------------------------ the action store
\* an alternative action named by an on_failure block
FallbackAction == [type |-> "type_text"]

\* actions without required flag and without on_failure
Plain == { [type |-> "click_position"], [type |-> "wait"] }

Special ==
  { [type |-> "click_text"],
    [type |-> "click_position", required |-> TRUE],
    [type |-> "click_position",
     on_failure |-> [strategy |-> "retry", params |-> [max_retries |-> 1]]],
    [type |-> "click_position", on_failure |-> [strategy |-> "abort"]],
    [type |-> "click_position", required |-> TRUE,
     on_failure |-> [strategy |-> "abort"]],
    [type |-> "click_position", on_failure |-> [strategy |-> "skip"]],
    [type |-> "click_position", on_failure |-> [strategy |-> "checkpoint"]],
    [type |-> "click_position",
     on_failure |-> [strategy |-> "fallback", fallback_action |-> FallbackAction]],
    [type |-> "click_position", on_failure |-> [strategy |-> "fallback"]],
    [type |-> "click_position", required |-> TRUE,
     on_failure |-> [strategy |-> "fallback"]],
    [type |-> "click_position", required |-> TRUE,
     on_failure |-> [strategy |-> "checkpoint"]],
    [type |-> "click_template", template |-> "missing.png"] }

\* the action lists of the runs: plain actions, of which one may be replaced
\* by an action with a required flag or a directive of its own
Stores ==
  UNION { { s \in [1..n -> Plain \cup Special] :
              \A i, j \in 1..n : (s[i] \in Special /\ s[j] \in Special) => i = j } :
          n \in 1..MaxActions }

\* action lists long enough for a checkpoint at index 5: waits, an action
\* with a Checkpoint or a Skip directive at one place and, at index 4, a wait
\* or an action with a Retry directive
LongStores ==
  UNION { { [i \in 1..n |->
               IF i = p THEN s ELSE IF i = 5 THEN r ELSE [type |-> "wait"]] :
              p \in 1..n,
              s \in { [type |-> "click_position", on_failure |-> [strategy |-> "checkpoint"]],
                      [type |-> "click_position", on_failure |-> [strategy |-> "skip"]] },
              r \in { [type |-> "wait"],
                      [type |-> "click_position",
                       on_failure |-> [strategy |-> "retry", params |-> [max_retries |-> 1]]] } } :
          n \in 6..MaxLongActions }

\* ----------------------------------------------------- error_recovery.py
\* RecoveryAction.__init__: the strategy's default parameters
RecoveryAction(strategy, params, fallback_action) ==
  LET p1 == IF strategy = "retry" /\ "max_retries" \notin DOMAIN params
            THEN params @@ [max_retries |-> 3] ELSE params
      p2 == IF strategy = "wait" /\ "wait_time" \notin DOMAIN p1
            THEN p1 @@ [wait_time |-> 20] ELSE p1      \* tenths of a second
  IN [strategy |-> strategy, params |-> p2, fallback_action |-> fallback_action]

\* the defaults with click_position left to the Retry default of 3
DefaultRecovery_PositionThree(action_type) ==
  CASE action_type = "click_text" ->
         RecoveryAction("wait", [max_retries |-> 3, wait_time |-> 20], None)
    [] action_type = "click_template" ->
         RecoveryAction("wait", [max_retries |-> 3, wait_time |-> 15], None)
    [] action_type = "click_position" ->
         RecoveryAction("retry", <<>>, None)
    [] action_type = "type_text" ->
         RecoveryAction("retry", [max_retries |-> 2], None)
    [] OTHER ->
         RecoveryAction("retry", [max_retries |-> 1], None)

\* the default directive of an action type
DefaultRecovery(action_type) ==
  CASE action_type = "click_text" ->
         RecoveryAction("wait", [max_retries |-> 3, wait_time |-> 20], None)
    [] action_type = "click_template" ->
         RecoveryAction("wait", [max_retries |-> 3, wait_time |-> 15], None)
    [] action_type = "click_position" ->
         RecoveryAction("retry", [max_retries |-> 2], None)
    [] action_type = "type_text" ->
         RecoveryAction("retry", [max_retries |-> 2], None)
    [] OTHER ->
         RecoveryAction("retry", [max_retries |-> 1], None)

\* the resolver taking every on_failure block at its word: a strategy name
\* outside the enum is read as the Retry strategy
get_recovery_for_action_UnknownIsRetry(action) ==
  IF "on_failure" \in DOMAIN action
  THEN RecoveryAction(IF Get(action.on_failure, "strategy", "retry") \in RecoveryStrategy
                      THEN Get(action.on_failure, "strategy", "retry") ELSE "retry",
                      Get(action.on_failure, "params", <<>>),
                      Get(action.on_failure, "fallback_action", None))
  ELSE DefaultRecovery(Get(action, "type", "unknown"))

\* lines 257-317: the on_failure block when its strategy is one of the enum
\* (a missing strategy key reads as "retry"), the default of the type otherwise
get_recovery_for_action(action) ==
  IF "on_failure" \in DOMAIN action
       /\ Get(action.on_failure, "strategy", "retry") \in RecoveryStrategy
  THEN RecoveryAction(Get(action.on_failure, "strategy", "retry"),
                      Get(action.on_failure, "params", <<>>),
                      Get(action.on_failure, "fallback_action", None))
  ELSE DefaultRecovery(Get(action, "type", "unknown"))

\* create_checkpoint dropping the new checkpoint when the store is full
create_checkpoint_KeepsOldest(cps, index) ==
  IF Len(cps) >= 5 THEN cps ELSE Append(cps, index)

\* create_checkpoint: append, keep the last 5 (a checkpoint is its action_index)
create_checkpoint(cps, index) ==
  LET added == Append(cps, index)
  IN IF Len(added) > 5 THEN Tail(added) ELSE added

\* the selection with <= in place of <
get_checkpoint_before_action_Inclusive(cps, index) ==
  LET valid == SelectSeq(cps, LAMBDA c : c <= index)
  IN IF valid = <<>> THEN -1 ELSE valid[Len(valid)]

\* get_checkpoint_before_action: the last stored checkpoint with
\* action_index < index, or -1 for None
get_checkpoint_before_action(cps, index) ==
  LET valid == SelectSeq(cps, LAMBDA c : c < index)
  IN IF valid = <<>> THEN -1 ELSE valid[Len(valid)]

\* apply_recovery_strategy: (success, next_action, next_action_index)
apply_recovery_strategy(failed_action, recovery, index, cps) ==
  LET Result(s, a, i) == [success |-> s, next_action |-> a, next_index |-> i]
      strategy == recovery.strategy
  IN CASE strategy = "retry" -> Result(TRUE, failed_action, index)
       [] strategy = "wait" -> Result(TRUE, failed_action, index)
       [] strategy = "fallback" ->
            IF recovery.fallback_action # None
            THEN Result(TRUE, recovery.fallback_action, index)
            ELSE Result(FALSE, None, index)
       [] strategy = "checkpoint" ->
            IF get_checkpoint_before_action(cps, index) >= 0
            THEN Result(TRUE, None, get_checkpoint_before_action(cps, index))
            ELSE Result(FALSE, None, index)
       [] strategy = "skip" -> Result(TRUE, None, index + 1)
       [] strategy = "abort" -> Result(FALSE, None, -1)
       [] OTHER -> Result(FALSE, None, index)

\* ---------------------------------------------------------- perform_action
\* a str is the sequence of its characters
LowerCase ==
  [c \in {"A", "B", "K", "N", "O", "S", "T"} |->
     CASE c = "A" -> "a" [] c = "B" -> "b" [] c = "K" -> "k" [] c = "N" -> "n"
       [] c = "O" -> "o" [] c = "S" -> "s" [] c = "T" -> "t"]

\* str.lower()
lower(s) ==
  [i \in 1..Len(s) |-> IF s[i] \in DOMAIN LowerCase THEN LowerCase[s[i]] ELSE s[i]]

\* str.strip()
strip(s) ==
  LET inked == { i \in 1..Len(s) : s[i] # " " }
      first == CHOOSE i \in inked : \A j \in inked : i <= j
      last == CHOOSE i \in inked : \A j \in inked : j <= i
  IN IF inked = {} THEN <<>> ELSE SubSeq(s, first, last)

\* sub in s
Contains(s, sub) ==
  \E i \in 1..(Len(s) - Len(sub) + 1) : SubSeq(s, i, i + Len(sub) - 1) = sub

\* the phrases of line 407 that take the direct position handling
SpecialPhrases ==
  { <<"r","e","s","u","m","e"," ","t","h","e"," ","c","o","n","v","e","r","s","a","t","i","o","n">>,
    <<"t","r","y"," ","a","g","a","i","n">>,
    <<"a","c","c","e","p","t">> }

\* the window the run clicks in, as get_window_by_id reports it
Window == [width |-> 200, height |-> 100]

\* int(width * x_ratio), int(height * y_ratio), ratios in hundredths
Position(x_ratio, y_ratio) ==
  [x |-> (Window.width * x_ratio) \div 100, y |-> (Window.height * y_ratio) \div 100]

\* no position, where a position is expected
NoPosition == [x |-> -1, y |-> -1]

\* lines 656-677: the button patterns, in the order of the dict
ButtonPatterns ==
  << [pattern |-> <<"y","e","s">>, at |-> Position(40, 85)],
     [pattern |-> <<"n","o">>, at |-> Position(60, 85)],
     [pattern |-> <<"c","a","n","c","e","l">>, at |-> Position(70, 85)],
     [pattern |-> <<"c","o","n","f","i","r","m">>, at |-> Position(50, 85)],
     [pattern |-> <<"s","u","b","m","i","t">>, at |-> Position(50, 90)],
     [pattern |-> <<"s","e","n","d">>, at |-> Position(90, 90)],
     [pattern |-> <<"d","o","n","e">>, at |-> Position(50, 90)] >>

\* _find_common_ui_element: a fixed position for a common phrase, or none
_find_common_ui_element(text, window_info) ==
  LET Matching(t) == { i \in 1..Len(ButtonPatterns) : Contains(t, ButtonPatterns[i].pattern) }
      First(found) == CHOOSE i \in found : \A j \in found : i <= j
      Button(found) == IF found # {} THEN ButtonPatterns[First(found)].at ELSE NoPosition
      At(t) ==
        IF ~window_info THEN NoPosition
        ELSE IF Contains(t, <<"r","e","s","u","m","e"," ","t","h","e"," ","c","o","n","v","e","r","s","a","t","i","o","n">>)
                  \/ Contains(t, <<"r","e","s","u","m","e"," ","c","o","n","v","e","r","s","a","t","i","o","n">>)
             THEN Position(50, 90)
        ELSE IF Contains(t, <<"t","r","y"," ","a","g","a","i","n">>) THEN Position(50, 90)
        ELSE IF Contains(t, <<"a","c","c","e","p","t">>)
                  \/ Contains(t, <<"c","o","n","t","i","n","u","e">>)
                  \/ Contains(t, <<"o","k">>)
             THEN Position(75, 90)
        ELSE Button(Matching(t))
  IN At(strip(lower(text)))

\* what one attempt meets: the capture, the locators, the window lookup and
\* the input dispatcher
Environments ==
  [ capture : {"image", "none", "raises"},
    text_at : {NoPosition, [x |-> 50, y |-> 60]},
    template_at : {NoPosition, [x |-> 30, y |-> 40]},
    window_info : BOOLEAN,
    clicks_ok : {"all", "none", "offcenter"},
    type_ok : BOOLEAN ]

\* input_manager.click at one position
Clicked(e, at, center) ==
  \/ e.clicks_ok = "all"
  \/ e.clicks_ok = "offcenter" /\ at # center

\* _perform_grid_click: the centre, then (if that failed or in debug mode) the
\* eight points around it; the clicks made and whether any succeeded
_perform_grid_click(e, center, debug_mode) ==
  LET Point(dx, dy) == [x |-> center.x + dx * 5, y |-> center.y + dy * 5]
      grid == << Point(-1, -1), Point(-1, 0), Point(-1, 1), Point(0, -1),
                 Point(0, 1), Point(1, -1), Point(1, 0), Point(1, 1) >>
  IN IF Clicked(e, center, center) /\ ~debug_mode
     THEN [clicks |-> << center >>, success |-> TRUE]
     ELSE [clicks |-> << center >> \o grid,
           success |-> \E i \in 1..Len(grid) \cup {0} :
                          Clicked(e, IF i = 0 THEN center ELSE grid[i], center)]

\* the files that exist (os.path.exists)
Files == {"button.png"}

\* one pass of the body of the for loop of perform_action (lines 388-573):
\* returned says that the pass left perform_action by a return statement
Attempt(act, e, debug_mode) ==
  LET action_type == Get(act, "type", "unknown")
      Pass(ret, ok, caps, clicks, unverified, warned) ==
        [returned |-> ret, success |-> ok, captures |-> caps, clicks |-> clicks,
         unverified |-> unverified, warned |-> warned]
      \* lines 429-438 and 446-452: a click at the fixed position or a failure,
      \* returned at once
      Fallback(fixed, warn) ==
        IF fixed # NoPosition
        THEN Pass(TRUE, Clicked(e, fixed, fixed), 1, << fixed >>, TRUE, warn)
        ELSE Pass(TRUE, FALSE, 1, <<>>, FALSE, FALSE)
      \* the except blocks (lines 488-497 and 562-571)
      Emergency(fixed) ==
        IF fixed # NoPosition
        THEN Pass(TRUE, Clicked(e, fixed, fixed), 1, << fixed >>, TRUE, FALSE)
        ELSE Pass(FALSE, FALSE, 1, <<>>, FALSE, FALSE)
      \* the grid click, 10 pixels below the position found
      Click(ret, grid, unverified) ==
        Pass(ret, grid.success, 1, grid.clicks, unverified, FALSE)
      Grid(ret, at, unverified) ==
        Click(ret, _perform_grid_click(e, [x |-> at.x, y |-> at.y + 10], debug_mode),
              unverified)
      Body(fixed, special) ==
        CASE action_type = "click_position" ->
               LET at == [x |-> Get(act, "x", 0), y |-> Get(act, "y", 0)]
               IN Pass(FALSE, Clicked(e, at, at), 0, << at >>, FALSE, FALSE)
          [] action_type = "click_text" ->
               IF e.capture = "raises" THEN Emergency(fixed)
               ELSE IF special
               THEN IF e.capture = "image" /\ e.text_at # NoPosition
                    THEN Grid(TRUE, e.text_at, FALSE)
                    ELSE Fallback(fixed, TRUE)
               ELSE IF e.capture = "none" THEN Fallback(fixed, FALSE)
               ELSE IF e.text_at # NoPosition THEN Grid(FALSE, e.text_at, FALSE)
               ELSE IF fixed # NoPosition THEN Grid(FALSE, fixed, TRUE)
               ELSE Pass(FALSE, FALSE, 1, <<>>, FALSE, FALSE)
          [] action_type = "click_template" ->
               IF Get(act, "template", "") \notin Files
               THEN Pass(TRUE, FALSE, 0, <<>>, FALSE, FALSE)
               ELSE IF e.capture = "raises" THEN Emergency(fixed)
               ELSE IF e.capture = "none" THEN Pass(TRUE, FALSE, 1, <<>>, FALSE, FALSE)
               ELSE IF e.template_at # NoPosition
               THEN Pass(FALSE, Clicked(e, e.template_at, e.template_at), 1,
                         << e.template_at >>, FALSE, FALSE)
               ELSE Pass(FALSE, FALSE, 1, <<>>, FALSE, FALSE)
          [] action_type = "type_text" -> Pass(FALSE, e.type_ok, 0, <<>>, FALSE, FALSE)
          [] action_type = "wait" -> Pass(FALSE, TRUE, 0, <<>>, FALSE, FALSE)
          [] OTHER -> Pass(FALSE, FALSE, 0, <<>>, FALSE, FALSE)
      HasPhrase(t) == \E phrase \in SpecialPhrases : Contains(t, phrase)
  IN Body(_find_common_ui_element(Get(act, "text", <<>>), e.window_info),
          HasPhrase(strip(lower(Get(act, "text", <<>>)))))

\* perform_action: retry_count + 1 passes at most, envs[k] being what the
\* k-th pass meets; the result and what was done on the way
perform_action(act, envs, debug_mode) ==
  LET \* the pass that leaves the loop
      LastOf(passes) ==
        CHOOSE k \in DOMAIN passes :
          /\ passes[k].returned \/ passes[k].success \/ k = Get(act, "retry_count", 0) + 1
          /\ \A j \in 1..(k - 1) : ~passes[j].returned /\ ~passes[j].success
      Sum(passes, last) ==
        LET done[k \in 0..last] ==
              IF k = 0
              THEN [captures |-> 0, clicks |-> <<>>, unverified |-> FALSE,
                    warned |-> FALSE]
              ELSE [captures |-> done[k - 1].captures + passes[k].captures,
                    clicks |-> done[k - 1].clicks \o passes[k].clicks,
                    unverified |-> done[k - 1].unverified \/ passes[k].unverified,
                    warned |-> done[k - 1].warned \/ passes[k].warned]
        IN [success |-> passes[last].success, attempts |-> last] @@ done[last]
      Run(passes) == Sum(passes, LastOf(passes))
  IN Run([k \in 1..(Get(act, "retry_count", 0) + 1) |->
            Attempt(act, envs[k], debug_mode)])

\* the actions an action list is made of
StoredActions ==
  Plain \cup Special \cup {FallbackAction}
    \cup UNION { { s[i] : i \in 1..Len(s) } : s \in LongStores }

\* what perform_action can return for each of them, over all it can meet in
\* one pass, with and without debug mode
Outcomes ==
  { << a, perform_action(a, << e >>, d).success >> :
      a \in StoredActions, e \in Environments, d \in BOOLEAN }

PerformOutcomes(a) == { success \in BOOLEAN : << a, success >> \in Outcomes }

\* ------------------------------------------------------------- the state
VARIABLES
  actions,              \* self.actions
  loop_actions,         \* self.loop_actions
  continuous_mode,      \* self.continuous_mode
  enable_recovery,      \* self.enable_recovery (recovery_manager exists iff TRUE)
  max_cycles,           \* argument of run_automation
  max_failures,         \* argument of run_automation
  pc,                   \* position of run_automation
  action_index,         \* local of run_automation
  consecutive_failures, \* local of run_automation
  retry_count,          \* local of run_automation
  action,               \* local of run_automation: the current action
  stats,                \* self.stats: the three counters
  checkpoints,          \* recovery_manager.checkpoints (action_index of each)
  attempts,             \* the perform_action calls made so far, in order
  branch,               \* the branch of lines 250-308 the last failure took
  stop_reason,          \* which exit of the loop was taken
  is_running,           \* self.is_running
  final_summaries,      \* calls of _display_automation_summary in the finally block
  result,               \* what run_automation returned
  click_interval,       \* self.click_interval, in tenths of a second
  files,                \* the file system: path -> JSON document
  input,                \* the arguments of the call under study
  output,               \* what that call returned
  exit_code,            \* what CLI.run returned
  recorder              \* the ActionRecorder and its two threads (None: no recorder)

vars == << actions, loop_actions, continuous_mode, enable_recovery, max_cycles,
           max_failures, pc, action_index, consecutive_failures, retry_count,
           action, stats, checkpoints, attempts, branch, stop_reason,
           is_running, final_summaries, result, click_interval, files, input,
           output, exit_code, recorder >>

\* the state outside run_automation
outside == << click_interval, files, input, output, exit_code, recorder >>

config == << actions, loop_actions, continuous_mode, enable_recovery,
             max_cycles, max_failures >>

\* _create_stats
_create_stats == [successful_actions |-> 0, failed_actions |-> 0, cycles_completed |-> 0]

\* checkpoint_interval = max(5, len(self.actions) // 5)
checkpoint_interval ==
  IF Len(actions) \div 5 > 5 THEN Len(actions) \div 5 ELSE 5

\* the perform_action calls followed in one run
AttemptLimit ==
  IF Len(actions) > MaxLongActions
  THEN Len(actions)
  ELSE IF Len(actions) > MaxActions \/ max_failures > MaxFailureCap + 1
       THEN MaxLongAttempts ELSE MaxAttempts

\* nothing outside run_automation is going on
Idle ==
  /\ click_interval = 1
  /\ files = << >>
  /\ input = None
  /\ output = None
  /\ exit_code = -1
  /\ recorder = None

\* lines 176-186: run_automation has reset the statistics and is at the head
\* of the first loop iteration
Started ==
  /\ pc = "loop"
  /\ action_index = 0
  /\ consecutive_failures = 0
  /\ retry_count = 0
  /\ action = None
  /\ stats = _create_stats
  /\ checkpoints = <<>>
  /\ attempts = <<>>
  /\ branch = "none"
  /\ stop_reason = "None"
  /\ is_running = TRUE
  /\ final_summaries = 0
  /\ result = None
  /\ Idle

\* the runs the controller can be asked for, over the short action lists
Init ==
  /\ actions \in Stores
  /\ loop_actions \in BOOLEAN
  /\ continuous_mode \in BOOLEAN
  /\ enable_recovery \in BOOLEAN
  /\ max_cycles \in 0..MaxCycleLimit
  /\ max_failures \in 0..MaxFailureCap
  /\ Started

\* the cycle limit compared with > instead of >=
ReachedMaxCycles_Late == max_cycles > 0 /\ stats.cycles_completed > max_cycles

\* line 190: the cycle limit is reached
ReachedMaxCycles == max_cycles > 0 /\ stats.cycles_completed >= max_cycles

\* the failure cap compared with > instead of >=
ReachedMaxFailures_Late == max_failures > 0 /\ consecutive_failures > max_failures

\* line 195: the consecutive-failure cap is reached
ReachedMaxFailures == max_failures > 0 /\ consecutive_failures >= max_failures

\* the next index without the wraparound
NextIndex_NoWrap(i) == i + 1

\* lines 278 and 311: (action_index + 1) % len(self.actions)
NextIndex(i) == (i + 1) % Len(actions)

\* the counter without the reset on success
FailuresAfter_NoReset(failures, success) == IF success THEN failures ELSE failures + 1

\* lines 236 and 245: the consecutive-failure counter after an attempt
FailuresAfter(failures, success) == IF success THEN 0 ELSE failures + 1

\* an error raised inside the loop leaving run_automation without the
\* summary and without a return value, as with no finally block
Finally_NotOnError(reason, returned) ==
  /\ pc' = "done"
  /\ stop_reason' = reason
  /\ final_summaries' = IF reason = "Error" THEN final_summaries ELSE final_summaries + 1
  /\ result' = IF reason = "Error" THEN None ELSE returned

\* the finally block (lines 361-364): the summary is displayed and self.stats
\* returned
Finally(reason, returned) ==
  /\ pc' = "done"
  /\ stop_reason' = reason
  /\ final_summaries' = final_summaries + 1
  /\ result' = returned

\* leaving the loop with the statistics as they are
Stop(reason) == Finally(reason, stats)

\* staying in the loop, at position p
Goto(p) ==
  /\ pc' = p
  /\ UNCHANGED << stop_reason, final_summaries, result >>

\* ------------------------------------------------- head of the while loop
StopMaxCycles ==
  /\ pc = "loop"
  /\ is_running
  /\ ReachedMaxCycles
  /\ Stop("MaxCyclesReached")
  /\ UNCHANGED << config, action_index, consecutive_failures, retry_count,
                  action, stats, checkpoints, attempts, branch, is_running,
                  outside >>

StopMaxFailures ==
  /\ pc = "loop"
  /\ is_running
  /\ ~ReachedMaxCycles
  /\ ReachedMaxFailures
  /\ Stop("MaxConsecutiveFailures")
  /\ UNCHANGED << config, action_index, consecutive_failures, retry_count,
                  action, stats, checkpoints, attempts, branch, is_running,
                  outside >>

PassesChecks ==
  /\ pc = "loop"
  /\ is_running
  /\ ~ReachedMaxCycles
  /\ ~ReachedMaxFailures

\* self.actions[action_index] with an index past the end raises IndexError,
\* which leaves the loop through the finally block
IndexError ==
  /\ PassesChecks
  /\ action_index >= Len(actions)
  /\ Stop("Error")
  /\ UNCHANGED << config, action_index, consecutive_failures, retry_count,
                  action, stats, checkpoints, attempts, branch, is_running,
                  outside >>

\* lines 199-222: fetch the action, create the checkpoint that is due, call
\* perform_action. create_checkpoints keeps the constructor's default (True):
\* neither the CLI nor the controller ever changes it.
Dispatch ==
  /\ PassesChecks
  /\ action_index < Len(actions)
  /\ Len(attempts) < AttemptLimit
  /\ action' = actions[action_index + 1]
  /\ checkpoints' =
       IF enable_recovery /\ action_index % checkpoint_interval = 0
            /\ retry_count = 0
       THEN create_checkpoint(checkpoints, action_index)
       ELSE checkpoints
  /\ branch' = "none"
  /\ Goto("perform")
  /\ UNCHANGED << config, action_index, consecutive_failures, retry_count,
                  stats, attempts, is_running, outside >>

\* lines 222-248: perform_action returns, the statistics are updated
Perform ==
  /\ pc = "perform"
  /\ \E success \in PerformOutcomes(action) :
       /\ attempts' = Append(attempts,
                        [index |-> action_index,
                         type |-> Get(action, "type", "unknown"),
                         success |-> success])
       /\ consecutive_failures' = FailuresAfter(consecutive_failures, success)
       /\ IF success
          THEN /\ stats' = [stats EXCEPT !.successful_actions = @ + 1]
               /\ retry_count' = 0
               /\ Goto("advance")
          ELSE /\ stats' = [stats EXCEPT !.failed_actions = @ + 1]
               /\ retry_count' = retry_count
               /\ Goto("recover")
  /\ UNCHANGED << config, action_index, action, checkpoints, branch,
                  is_running, outside >>

\* the handling without the continuous-mode branch
RequiredHandling_AlwaysStops(act) ==
  IF Get(act, "required", FALSE)
  THEN Stop("RequiredActionFailed")
  ELSE Goto("advance")

\* lines 299-308: a failure that recovery did not take care of
RequiredHandling(act) ==
  IF Get(act, "required", FALSE)
  THEN IF continuous_mode
       THEN Goto("loop")
       ELSE Stop("RequiredActionFailed")
  ELSE Goto("advance")

\* lines 250-308 with recovery enabled
Recover ==
  /\ pc = "recover"
  /\ enable_recovery
  /\ LET recovery == get_recovery_for_action(action)
         r == apply_recovery_strategy(action, recovery, action_index, checkpoints)
         max_retries == Get(recovery.params, "max_retries", 3)
     IN IF r.success
        THEN IF r.next_action # None
             THEN /\ action' = r.next_action
                  /\ IF r.next_index = action_index
                     THEN IF retry_count + 1 > max_retries
                          THEN \* lines 276-278, then on to line 299
                               /\ retry_count' = 0
                               /\ action_index' = NextIndex(action_index)
                               /\ branch' = "exhausted"
                               /\ RequiredHandling(r.next_action)
                          ELSE \* line 281
                               /\ retry_count' = retry_count + 1
                               /\ action_index' = action_index
                               /\ branch' = "retry"
                               /\ Goto("loop")
                     ELSE \* lines 284-286
                          /\ action_index' = r.next_index
                          /\ retry_count' = 0
                          /\ branch' = "redirect"
                          /\ Goto("loop")
             ELSE \* lines 289-294
                  /\ action' = action
                  /\ action_index' = r.next_index
                  /\ retry_count' = 0
                  /\ branch' = "jump"
                  /\ IF r.next_index < 0
                     THEN Stop("AbortDirective")
                     ELSE Goto("loop")
        ELSE \* line 297, then on to line 299
             /\ branch' = "failed"
             /\ RequiredHandling(action)
             /\ UNCHANGED << action, action_index, retry_count >>
  /\ UNCHANGED << config, consecutive_failures, stats, checkpoints, attempts,
                  is_running, outside >>

\* lines 250-308 with recovery disabled
Unrecovered ==
  /\ pc = "recover"
  /\ ~enable_recovery
  /\ branch' = "disabled"
  /\ RequiredHandling(action)
  /\ UNCHANGED << config, action_index, consecutive_failures, retry_count,
                  action, stats, checkpoints, attempts, is_running, outside >>

\* lines 310-356: next action, cycle accounting
Advance ==
  /\ pc = "advance"
  /\ action_index' = NextIndex(action_index)
  /\ IF action_index' = 0
     THEN /\ stats' = [stats EXCEPT !.cycles_completed = @ + 1]
          /\ IF ~loop_actions
             THEN Finally("LoopDisabled", stats')
             ELSE Goto("loop")
     ELSE /\ stats' = stats
          /\ Goto("loop")
  /\ UNCHANGED << config, consecutive_failures, retry_count, action,
                  checkpoints, attempts, branch, is_running, outside >>

Next ==
  \/ StopMaxCycles
  \/ StopMaxFailures
  \/ IndexError
  \/ Dispatch
  \/ Perform
  \/ Recover
  \/ Unrecovered
  \/ Advance

Spec == Init /\ [][Next]_vars

\* ------------------------------------------------------- stopping a run
\* stop(), called from another thread while the run is in its loop
stop ==
  /\ pc \in {"loop", "perform", "recover", "advance"}
  /\ is_running
  /\ is_running' = FALSE
  /\ UNCHANGED << config, pc, action_index, consecutive_failures, retry_count,
                  action, stats, checkpoints, attempts, branch, stop_reason,
                  final_summaries, result, outside >>

\* line 188: the while condition is false, the loop ends
StopObserved ==
  /\ pc = "loop"
  /\ ~is_running
  /\ Stop("StopRequested")
  /\ UNCHANGED << config, action_index, consecutive_failures, retry_count,
                  action, stats, checkpoints, attempts, branch, is_running,
                  outside >>

\* lines 358-360: a KeyboardInterrupt raised anywhere inside the try block,
\* perform_action included (its handlers catch Exception only)
KeyboardInterrupt ==
  /\ pc \in {"loop", "perform", "recover", "advance"}
  /\ is_running' = FALSE
  /\ Stop("UserInterrupt")
  /\ UNCHANGED << config, action_index, consecutive_failures, retry_count,
                  action, stats, checkpoints, attempts, branch, outside >>

NextStop ==
  \/ Next
  \/ stop
  \/ StopObserved
  \/ KeyboardInterrupt

\* the runs over the action lists shorter than the longest
InitStop ==
  /\ Init
  /\ Len(actions) < MaxActions

SpecStop == InitStop /\ [][NextStop]_vars

\* ------------------------------------------- the resolver, call by call
\* no run is going on: the controller as its constructor leaves it
NoRun ==
  /\ actions = <<>>
  /\ loop_actions = FALSE
  /\ continuous_mode = FALSE
  /\ enable_recovery = TRUE
  /\ max_cycles = 0
  /\ max_failures = 0
  /\ action_index = 0
  /\ consecutive_failures = 0
  /\ retry_count = 0
  /\ action = None
  /\ stats = _create_stats
  /\ checkpoints = <<>>
  /\ attempts = <<>>
  /\ branch = "none"
  /\ stop_reason = "None"
  /\ is_running = FALSE
  /\ final_summaries = 0
  /\ result = None

run == << config, action_index, consecutive_failures, retry_count, action,
         stats, checkpoints, attempts, branch, stop_reason, is_running,
         final_summaries, result >>

\* the on_failure blocks an action can carry
OnFailureBlocks ==
  { << >>, [strategy |-> "bogus"],
    [strategy |-> "bogus", params |-> [max_retries |-> 1]] }
    \cup UNION { { [strategy |-> s],
                   [strategy |-> s, params |-> [max_retries |-> 1]],
                   [strategy |-> s, params |-> [wait_time |-> 5],
                    fallback_action |-> FallbackAction] } : s \in RecoveryStrategy }

\* the actions given to the resolver: every type, an unknown one and none,
\* without and with each on_failure block
ResolverInputs ==
  LET bare == { [type |-> t] : t \in {"click_text", "click_template", "click_position",
                                       "type_text", "wait", "scroll"} }
                 \cup { [text |-> << >>] }
  IN bare \cup { a @@ [on_failure |-> b] : a \in bare, b \in OnFailureBlocks }

InitResolver ==
  /\ pc = "resolve"
  /\ input \in ResolverInputs
  /\ output = None
  /\ click_interval = 1
  /\ files = << >>
  /\ exit_code = -1
  /\ recorder = None
  /\ NoRun

Resolve ==
  /\ pc = "resolve"
  /\ output' = get_recovery_for_action(input)
  /\ pc' = "resolved"
  /\ UNCHANGED << run, click_interval, files, input, exit_code, recorder >>

SpecResolver == InitResolver /\ [][Resolve]_vars

\* ------------------------------------------ perform_action, call by call
\* the actions given to perform_action: texts without a common phrase, with
\* one ("ok" in "OK" and in "Book", "send"), with a phrase of line 407, and
\* the other types; some with an internal retry_count
PerformActions ==
  LET texts == { << >>, <<"S","a","v","e">>, <<"O","K">>, <<"B","o","o","k">>,
                 <<"S","e","n","d">>, <<"T","r","y"," ","a","g","a","i","n">>,
                 <<" ","A","c","c","e","p","t"," ">> }
      once == { [type |-> "click_text", text |-> t] : t \in texts }
                \cup { [type |-> "click_template", template |-> f] :
                         f \in {"button.png", "missing.png"} }
                \cup { [type |-> "click_position", x |-> 10, y |-> 10],
                       [type |-> "type_text", text |-> <<"a">>],
                       [type |-> "wait"], [type |-> "scroll"] }
      again == { [type |-> "click_text", text |-> <<"S","a","v","e">>],
                 [type |-> "click_template", template |-> "button.png"],
                 [type |-> "click_template", template |-> "missing.png"],
                 [type |-> "click_position", x |-> 10, y |-> 10] }
  IN once \cup { a @@ [retry_count |-> 1] : a \in again }

\* an action, what each of its passes meets, and the controller's debug mode
PerformInputs ==
  { [action |-> a, envs |-> es, debug_mode |-> d] :
      a \in { b \in PerformActions : "retry_count" \notin DOMAIN b },
      es \in { << e >> : e \in Environments }, d \in BOOLEAN }
  \cup
  { [action |-> a, envs |-> es, debug_mode |-> d] :
      a \in { b \in PerformActions : "retry_count" \in DOMAIN b },
      es \in Environments \X { e \in Environments : e.type_ok /\ e.window_info },
      d \in BOOLEAN }

InitPerform ==
  /\ pc = "call"
  /\ input \in PerformInputs
  /\ output = None
  /\ click_interval = 1
  /\ files = << >>
  /\ exit_code = -1
  /\ recorder = None
  /\ NoRun

PerformCall ==
  /\ pc = "call"
  /\ output' = perform_action(input.action, input.envs, input.debug_mode)
  /\ pc' = "returned"
  /\ UNCHANGED << run, click_interval, files, input, exit_code, recorder >>

SpecPerform == InitPerform /\ [][PerformCall]_vars

\* ------------------------------------------------ the configuration file
\* a JSON document is a tree of nodes [t |-> kind, ...]: number nodes hold
\* the literal written, arrays their items, objects their members by key
Digits == << "0", "1", "2", "3", "4", "5", "6", "7", "8", "9" >>

\* the literal json.dump writes for an int
RECURSIVE IntLiteral(_)
IntLiteral(n) ==
  IF n < 10 THEN << Digits[n + 1] >>
  ELSE IntLiteral(n \div 10) \o << Digits[(n % 10) + 1] >>

\* the literal json.dump writes for a float, given in tenths: 5 is 0.5
FloatLiteral(tenths) ==
  IntLiteral(tenths \div 10) \o << "." >> \o << Digits[(tenths % 10) + 1] >>

RECURSIVE IntValue(_)
IntValue(lit) ==
  IF lit = << >> THEN 0
  ELSE IntValue(SubSeq(lit, 1, Len(lit) - 1)) * 10
         + (CHOOSE i \in 0..9 : Digits[i + 1] = lit[Len(lit)])

\* the number json.load reads from a literal: an int, or a float in tenths
NumberValue(lit) ==
  IF \E i \in 1..Len(lit) : lit[i] = "."
  THEN LET dot == CHOOSE i \in 1..Len(lit) : lit[i] = "."
       IN IntValue(SubSeq(lit, 1, dot - 1)) * 10
            + IntValue(SubSeq(lit, dot + 1, Len(lit)))
  ELSE IntValue(lit)

\* the keys of the tracked fields that hold ints, floats, bools and dicts;
\* the other keys hold strings
IntKeys == {"x", "y", "button", "retry_count", "max_retries"}
FloatKeys == {"duration", "threshold", "wait_time", "click_interval"}
BoolKeys == {"required", "loop_actions", "continuous_mode"}
DictKeys == {"on_failure", "params", "fallback_action"}

\* json.dump of a dict of tracked fields, and of the list of actions
RECURSIVE dump(_)
dump(d) ==
  [t |-> "object",
   members |->
     [k \in DOMAIN d |->
        IF k \in IntKeys THEN [t |-> "number", lit |-> IntLiteral(d[k])]
        ELSE IF k \in FloatKeys THEN [t |-> "number", lit |-> FloatLiteral(d[k])]
        ELSE IF k \in BoolKeys THEN [t |-> IF d[k] THEN "true" ELSE "false"]
        ELSE IF k \in DictKeys THEN dump(d[k])
        ELSE IF k = "actions"
        THEN [t |-> "array", items |-> [i \in 1..Len(d[k]) |-> dump(d[k][i])]]
        ELSE [t |-> "string", s |-> d[k]]]]

\* json.load of a document
RECURSIVE load(_)
load(doc) ==
  CASE doc.t = "object" -> [k \in DOMAIN doc.members |-> load(doc.members[k])]
    [] doc.t = "array" -> [i \in 1..Len(doc.items) |-> load(doc.items[i])]
    [] doc.t = "number" -> NumberValue(doc.lit)
    [] doc.t = "string" -> doc.s
    [] doc.t = "true" -> TRUE
    [] doc.t = "false" -> FALSE

\* a file that is not JSON, and JSON that is not an object
Garbage == [t |-> "garbage"]
EmptyArray == [t |-> "array", items |-> << >>]

\* a path: its directory ("" when it has none) and its name, split at the dots
Path(dir, name) == [dir |-> dir, name |-> name]

\* filename.endswith('.json')
endswith_json(filename) ==
  Len(filename.name) > 1 /\ filename.name[Len(filename.name)] = "json"

\* the directories that exist: the working directory and ConfigManager.config_dir
config_dir == "config"
Directories == {"", config_dir}

\* open(path, 'r') and json.load: the config read, or a failure
ReadJson(fs, path) ==
  IF path \in DOMAIN fs /\ fs[path] # Garbage
  THEN [ok |-> TRUE, doc |-> fs[path]]
  ELSE [ok |-> FALSE, doc |-> Garbage]

\* ConfigManager.load_config: ".json" is appended to a name without it, and a
\* name without directory that is not found is looked up in config_dir
load_config(fs, filename) ==
  LET named == IF endswith_json(filename) THEN filename
               ELSE [filename EXCEPT !.name = @ \o << "json" >>]
      filepath == IF named \notin DOMAIN fs /\ named.dir = ""
                  THEN [named EXCEPT !.dir = config_dir]
                  ELSE named
  IN [path |-> filepath] @@ ReadJson(fs, filepath)

\* the file load_actions reads, and what it gets from it
Config(fs, config_file, config_manager) ==
  IF config_manager THEN load_config(fs, config_file)
  ELSE [path |-> config_file] @@ ReadJson(fs, config_file)

\* what the controller saves and loads
Settings == [actions |-> actions, loop_actions |-> loop_actions,
             continuous_mode |-> continuous_mode, click_interval |-> click_interval]

\* the actions of the saved stores, with the tracked fields
SavedActions ==
  { [type |-> "click_position", x |-> 100, y |-> 200],
    [type |-> "click_position", x |-> 0, y |-> 7, button |-> 3, required |-> TRUE,
     retry_count |-> 2],
    [type |-> "type_text", text |-> <<"t","e","s","t">>],
    [type |-> "click_text", text |-> <<"O","K">>, required |-> FALSE,
     on_failure |-> [strategy |-> "fallback",
                     params |-> [max_retries |-> 10, wait_time |-> 25],
                     fallback_action |-> [type |-> "wait", duration |-> 5]]],
    [type |-> "click_template", template |-> "button.png", threshold |-> 7],
    [type |-> "wait", duration |-> 120] }

SavedStores ==
  LET lists == { << >> } \cup { << a >> : a \in SavedActions }
                 \cup { << a, b >> : a \in SavedActions,
                          b \in { c \in SavedActions : c.type = "click_position" } }
  IN [actions : lists, loop_actions : BOOLEAN, continuous_mode : BOOLEAN,
      click_interval : {1, 5, 30}]

\* the names a store is saved under and loaded from
FileNames ==
  { Path("", <<"foo">>), Path("", <<"foo", "json">>),
    Path("nodir", <<"foo", "json">>) }

\* what is on the disk before: nothing, an older file, a file that is not
\* JSON, a file that holds a JSON array
OlderFiles ==
  { << >>,
    Path("", <<"foo", "json">>) :> dump([actions |-> << [type |-> "wait"] >>]),
    Path(config_dir, <<"foo", "json">>) :> dump([loop_actions |-> TRUE]),
    Path("", <<"foo">>) :> Garbage,
    Path("", <<"foo", "json">>) :> EmptyArray }

rest == << enable_recovery, max_cycles, max_failures, action_index,
          consecutive_failures, retry_count, action, stats, checkpoints,
          attempts, branch, stop_reason, is_running, final_summaries, result,
          exit_code, recorder >>

InitStore ==
  /\ pc = "build"
  /\ input \in [store : SavedStores, save_as : FileNames, load_from : FileNames,
                config_manager : BOOLEAN]
  /\ actions = input.store.actions
  /\ loop_actions = input.store.loop_actions
  /\ continuous_mode = input.store.continuous_mode
  /\ click_interval = input.store.click_interval
  /\ files \in OlderFiles
  /\ output = None
  /\ exit_code = -1
  /\ recorder = None
  /\ enable_recovery = TRUE
  /\ max_cycles = 0
  /\ max_failures = 0
  /\ action_index = 0
  /\ consecutive_failures = 0
  /\ retry_count = 0
  /\ action = None
  /\ stats = _create_stats
  /\ checkpoints = <<>>
  /\ attempts = <<>>
  /\ branch = "none"
  /\ stop_reason = "None"
  /\ is_running = FALSE
  /\ final_summaries = 0
  /\ result = None

\* save_actions (lines 132-161): open(config_file, 'w') fails in a directory
\* that does not exist
save_actions ==
  /\ pc = "build"
  /\ pc' = "saved"
  /\ IF input.save_as.dir \in Directories
     THEN /\ files' = (input.save_as :> dump(Settings)) @@ files
          /\ output' = [saved |-> TRUE]
     ELSE /\ files' = files
          /\ output' = [saved |-> FALSE]
  /\ UNCHANGED << actions, loop_actions, continuous_mode, click_interval, input, rest >>

\* ActionController.__init__ (lines 43-49): another controller, with the
\* defaults
Construct ==
  /\ pc = "saved"
  /\ pc' = "fresh"
  /\ actions' = << >>
  /\ loop_actions' = FALSE
  /\ continuous_mode' = FALSE
  /\ click_interval' = 1
  /\ UNCHANGED << files, input, output, rest >>

\* load_actions (lines 79-118) without the assignment of click_interval
load_actions_KeepsInterval ==
  /\ pc = "fresh"
  /\ pc' = "loaded"
  /\ LET got == Config(files, input.load_from, input.config_manager)
     IN IF got.ok /\ got.doc.t = "object"
        THEN /\ actions' = Get(load(got.doc), "actions", << >>)
             /\ loop_actions' = Get(load(got.doc), "loop_actions", FALSE)
             /\ continuous_mode' = Get(load(got.doc), "continuous_mode", FALSE)
             /\ click_interval' = click_interval
             /\ output' = output @@ [loaded |-> TRUE, path |-> got.path]
        ELSE /\ UNCHANGED << actions, loop_actions, continuous_mode, click_interval >>
             /\ output' = output @@ [loaded |-> FALSE, path |-> got.path]
  /\ UNCHANGED << files, input, rest >>

\* load_actions (lines 79-118): False when the file cannot be read or parsed,
\* or when what it holds has no get method
load_actions ==
  /\ pc = "fresh"
  /\ pc' = "loaded"
  /\ LET got == Config(files, input.load_from, input.config_manager)
     IN IF got.ok /\ got.doc.t = "object"
        THEN /\ actions' = Get(load(got.doc), "actions", << >>)
             /\ loop_actions' = Get(load(got.doc), "loop_actions", FALSE)
             /\ continuous_mode' = Get(load(got.doc), "continuous_mode", FALSE)
             /\ click_interval' = Get(load(got.doc), "click_interval", 1)
             /\ output' = output @@ [loaded |-> TRUE, path |-> got.path]
        ELSE /\ UNCHANGED << actions, loop_actions, continuous_mode, click_interval >>
             /\ output' = output @@ [loaded |-> FALSE, path |-> got.path]
  /\ UNCHANGED << files, input, rest >>

NextStore == save_actions \/ Construct \/ load_actions

SpecStore == InitStore /\ [][NextStore]_vars

\* ------------------------------------------------------------ the CLI
\* run_automation's default for max_failures: CLI.run does not pass one
DefaultMaxFailures == 10

\* an option that was not given on the command line
NoArg == Path("", << >>)

\* the windows window_manager.list_windows() finds: name -> id
Windows == [editor |-> 7]

\* the stores in the configuration file of an invocation
CLIStores ==
  LET lists == { << >>,
                 << [type |-> "click_position"] >>,
                 << [type |-> "click_position", on_failure |-> [strategy |-> "abort"]] >>,
                 << [type |-> "click_position", on_failure |-> [strategy |-> "skip"]] >>,
                 << [type |-> "click_position", required |-> TRUE,
                     on_failure |-> [strategy |-> "fallback"]] >> }
  IN [actions : lists, loop_actions : BOOLEAN, continuous_mode : {FALSE},
      click_interval : {1}]

\* the command lines: --window-id or --window-name, --config, --save-config,
\* --max-cycles
CLIInputs ==
  { i \in [window_id : {0, 7}, window_name : {"", "editor", "missing"},
           config : {NoArg, Path("", <<"foo">>), Path("", <<"gone">>)},
           save_config : {NoArg, Path("", <<"out", "json">>),
                          Path("nodir", <<"out", "json">>)},
           max_cycles : {0, 1}] :
      /\ i.window_id # 0 => i.window_name = ""
      /\ i.save_config # NoArg => i.max_cycles = 0 }

\* the configuration file foo.json, in the working directory or in config_dir
CLIFiles ==
  { Path("", <<"foo", "json">>) :> dump(s) : s \in CLIStores }
    \cup { Path(config_dir, <<"foo", "json">>) :> dump(s) :
             s \in { c \in CLIStores : ~c.loop_actions } }
    \cup { Path("", <<"foo", "json">>) :> Garbage }

InitCLI ==
  /\ pc = "main"
  /\ input \in CLIInputs
  /\ files \in CLIFiles
  /\ output = None
  /\ exit_code = -1
  /\ recorder = None
  /\ click_interval = 1
  /\ NoRun

\* lines 160-173: the window id given, or the id of the window whose name
\* matches; 0 when there is none
ResolvedWindow ==
  IF input.window_id # 0 THEN input.window_id
  ELSE IF input.window_name \in DOMAIN Windows THEN Windows[input.window_name]
  ELSE 0

\* return of CLI.run
Exit(code) ==
  /\ pc' = "exited"
  /\ exit_code' = code
  /\ UNCHANGED recorder

\* CLI.run from its entry (line 97) to the call of run_automation (line 373)
\* or to the return statement it reaches before: window lookup, load_actions
\* through ConfigManager, --save-config, the checks of lines 371-380
Main ==
  /\ pc = "main"
  /\ LET got == Config(files, input.config, TRUE)
         loaded == input.config # NoArg /\ got.ok /\ got.doc.t = "object"
         cfg == IF loaded THEN load(got.doc) ELSE << >>
         loaded_actions == IF loaded THEN Get(cfg, "actions", << >>) ELSE << >>
         unmatched == input.window_id = 0 /\ input.window_name # ""
                        /\ ResolvedWindow = 0
     IN IF unmatched \/ (input.config # NoArg /\ ~loaded)
        THEN /\ Exit(1)
             /\ UNCHANGED << run, click_interval, files, input, output >>
        ELSE /\ actions' = loaded_actions
             /\ loop_actions' = (loaded /\ Get(cfg, "loop_actions", FALSE))
             /\ continuous_mode' = (loaded /\ Get(cfg, "continuous_mode", FALSE))
             /\ click_interval' = IF loaded THEN Get(cfg, "click_interval", 1) ELSE 1
             /\ UNCHANGED << enable_recovery, input, output >>
             /\ IF input.save_config # NoArg
                THEN /\ IF loaded_actions # << >> /\ input.save_config.dir \in Directories
                        THEN /\ files' = (input.save_config :>
                                            dump([actions |-> actions',
                                                  loop_actions |-> loop_actions',
                                                  continuous_mode |-> continuous_mode',
                                                  click_interval |-> click_interval']))
                                          @@ files
                             /\ Exit(0)
                        ELSE /\ files' = files
                             /\ Exit(1)
                     /\ UNCHANGED << max_cycles, max_failures, action_index,
                                     consecutive_failures, retry_count, action,
                                     stats, checkpoints, attempts, branch,
                                     stop_reason, is_running, final_summaries,
                                     result >>
                ELSE IF loaded_actions # << >> /\ ResolvedWindow # 0
                THEN /\ max_cycles' = input.max_cycles
                     /\ max_failures' = DefaultMaxFailures
                     /\ pc' = "loop"
                     /\ is_running' = TRUE
                     /\ stats' = _create_stats
                     /\ UNCHANGED << action_index, consecutive_failures, retry_count,
                                     action, checkpoints, attempts, branch,
                                     stop_reason, final_summaries, result, files,
                                     exit_code, recorder >>
                ELSE /\ Exit(1)
                     /\ UNCHANGED << max_cycles, max_failures, action_index,
                                     consecutive_failures, retry_count, action,
                                     stats, checkpoints, attempts, branch,
                                     stop_reason, is_running, final_summaries,
                                     result, files >>

\* line 374: run_automation has returned
MainReturn ==
  /\ pc = "done"
  /\ Exit(0)
  /\ UNCHANGED << run, click_interval, files, input, output >>

\* lines 384-386: a KeyboardInterrupt that reaches CLI.run, raised outside
\* run_automation's try block
MainInterrupt ==
  /\ pc \in {"main", "done"}
  /\ Exit(130)
  /\ UNCHANGED << run, click_interval, files, input, output >>

\* the controller CLI.run builds (lines 147-152) keeps enable_recovery at the
\* constructor's default, True: the run has no step with recovery disabled
NextCLI ==
  \/ Main
  \/ StopMaxCycles
  \/ StopMaxFailures
  \/ IndexError
  \/ Dispatch
  \/ Perform
  \/ Recover
  \/ Advance
  \/ KeyboardInterrupt
  \/ MainReturn
  \/ MainInterrupt

SpecCLI == InitCLI /\ [][NextCLI]_vars

\* the runs over the long action lists
InitCheckpoint ==
  /\ actions \in LongStores
  /\ loop_actions \in BOOLEAN
  /\ continuous_mode = FALSE
  /\ enable_recovery \in BOOLEAN
  /\ max_cycles \in {0, 1}
  /\ max_failures \in {0, MaxFailureCap}
  /\ Started

SpecCheckpoint == InitCheckpoint /\ [][Next]_vars

\* ------------------------------------------- the checkpoint store, call by call
MaxCreations == 7        \* create_checkpoint calls followed
MaxCheckpointIndex == 2  \* largest action_index given to them

\* a fresh ErrorRecoveryManager (line 85); input is the log of the
\* action_index arguments of the create_checkpoint calls made
InitCheckpointStore ==
  /\ pc = "store"
  /\ input = << >>
  /\ output = None
  /\ click_interval = 1
  /\ files = << >>
  /\ exit_code = -1
  /\ recorder = None
  /\ NoRun

\* a call of create_checkpoint (lines 88-156)
CreateCheckpoint ==
  /\ pc = "store"
  /\ Len(input) < MaxCreations
  /\ \E index \in 0..MaxCheckpointIndex :
       /\ checkpoints' = create_checkpoint(checkpoints, index)
       /\ input' = Append(input, index)
  /\ output' = None
  /\ UNCHANGED << config, action_index, consecutive_failures, retry_count,
                  action, stats, attempts, branch, stop_reason, is_running,
                  final_summaries, result, pc, click_interval, files, exit_code, recorder >>

\* a call of get_checkpoint_before_action (lines 169-182)
GetCheckpointBefore ==
  /\ pc = "store"
  /\ \E k \in 0..(MaxCheckpointIndex + 1) :
       output' = [before |-> k, found |-> get_checkpoint_before_action(checkpoints, k)]
  /\ UNCHANGED << run, checkpoints, pc, click_interval, files, input, exit_code, recorder >>

NextCheckpointStore == CreateCheckpoint \/ GetCheckpointBefore

SpecCheckpointStore == InitCheckpointStore /\ [][NextCheckpointStore]_vars

\* ------------------------------------------- the checkpoint cadence of a run
\* one pass over a list of n waits (a wait never fails: perform_action lines
\* 523-534), for every n up to MaxCadenceActions, ended by the cycle limit
\* when looping is on and by line 331 when it is off
InitCadence ==
  /\ actions \in { [i \in 1..n |-> [type |-> "wait"]] : n \in 1..MaxCadenceActions }
  /\ loop_actions \in BOOLEAN
  /\ continuous_mode = FALSE
  /\ enable_recovery = TRUE
  /\ max_cycles = 1
  /\ max_failures = DefaultMaxFailures
  /\ Started

\* the steps of run_automation such a run takes: no attempt fails, so lines
\* 232-308 are never entered
NextCadence ==
  \/ StopMaxCycles
  \/ Dispatch
  \/ Perform
  \/ Advance

SpecCadence == InitCadence /\ [][NextCadence]_vars

\* ------------------------------------------------ recorder.py: ActionRecorder
MaxEvents == 3   \* X events delivered to the listener during one recording
MaxBatch == 2    \* events in the data of one reply

\* an X event for the target window, inside its bounds: a button press or a
\* key press, gap tenths of a second after the event before it
Event == [kind : {"click", "key"}, gap : {0, 15}]

\* the context record_create_context returned (line 97)
Context == [id |-> 1]

Batches == UNION { [1..n -> Event] : n \in 1..MaxBatch }

\* start_recording has returned True (lines 74-130): the list is empty, the
\* context created, the record thread blocked in record_enable_context; main
\* and listener are the positions of the two threads, frees the arguments of
\* the record_free_context calls made, i and prev_time the locals of
\* _normalize_action_timing, data and clock those of _process_event
InitRecorder ==
  /\ recorder \in
       { [debug_mode |-> d, is_recording |-> TRUE, ctx |-> Context,
          actions |-> << >>, start_time |-> 0, last_action_time |-> 0,
          main |-> "recording", i |-> 0, prev_time |-> 0,
          listener |-> "enabled", data |-> << >>, clock |-> 0,
          delivered |-> 0, frees |-> << >>] : d \in BOOLEAN }
  /\ pc = "record"
  /\ click_interval = 1
  /\ files = << >>
  /\ input = None
  /\ output = None
  /\ exit_code = -1
  /\ NoRun

\* a step of the recorder leaves everything else alone
Recorder(next) ==
  /\ pc = "record"
  /\ recorder' = next
  /\ UNCHANGED << run, pc, click_interval, files, input, output, exit_code >>

\* _add_mouse_click_action, lines 250-259
_add_mouse_click_action(list, timestamp) ==
  Append(list, [type |-> "click_position", x |-> 5, y |-> 5, button |-> 1,
                timestamp |-> timestamp])

\* _add_keyboard_action, lines 323-335
_add_keyboard_action(list, last_action_time, timestamp) ==
  IF \/ list = << >>
     \/ list[Len(list)].type # "type_text"
     \/ timestamp - last_action_time > 10
  THEN Append(list, [type |-> "type_text", text |-> << "a" >>,
                     timestamp |-> timestamp])
  ELSE [list EXCEPT ![Len(list)] =
          [@ EXCEPT !.text = Append(@, "a")]]

\* one pass of the for loop of _normalize_action_timing (lines 363-371) on
\* one item of the list: the delay in tenths of a second, at least 0.1 s
Normalized(a, prev_time) ==
  IF "timestamp" \in DOMAIN a
  THEN [k \in (DOMAIN a \ {"timestamp"}) \cup {"delay"} |->
          IF k = "delay"
          THEN IF a.timestamp - prev_time > 1 THEN a.timestamp - prev_time ELSE 1
          ELSE a[k]]
  ELSE a

\* stop_recording, lines 139-145
StopRecording ==
  /\ recorder.main = "recording"
  /\ Recorder(IF ~recorder.is_recording
              THEN [recorder EXCEPT !.main = "returned"]
              ELSE [recorder EXCEPT !.is_recording = FALSE, !.main = "check_ctx"])

\* line 148
StopCheckContext ==
  /\ recorder.main = "check_ctx"
  /\ Recorder([recorder EXCEPT
                 !.main = IF recorder.ctx # None THEN "free" ELSE "join"])

\* line 149
StopFreeContext ==
  /\ recorder.main = "free"
  /\ Recorder([recorder EXCEPT !.frees = Append(@, recorder.ctx),
                               !.main = "clear"])

\* line 150
StopClearContext ==
  /\ recorder.main = "clear"
  /\ Recorder([recorder EXCEPT !.ctx = None, !.main = "join"])

\* lines 152-157: join(timeout=1.0) returns when the thread has ended or the
\* second has passed, whichever comes first
StopJoin ==
  /\ recorder.main = "join"
  /\ Recorder(IF recorder.actions # << >>
              THEN [recorder EXCEPT !.main = "normalize", !.i = 1,
                                    !.prev_time = recorder.start_time]
              ELSE [recorder EXCEPT !.main = "returned"])

\* lines 363-371, one item of the list per step, then the return of line 164
NormalizeStep ==
  /\ recorder.main = "normalize"
  /\ Recorder(IF recorder.i <= Len(recorder.actions)
              THEN LET a == recorder.actions[recorder.i]
                   IN [recorder EXCEPT
                         !.actions[recorder.i] = Normalized(a, recorder.prev_time),
                         !.prev_time = IF "timestamp" \in DOMAIN a
                                       THEN a.timestamp ELSE @,
                         !.i = @ + 1]
              ELSE [recorder EXCEPT !.main = "returned"])

\* the record extension calls _process_event with a reply: lines 190-191
Deliver ==
  /\ recorder.listener = "enabled"
  /\ \E batch \in Batches :
       /\ recorder.delivered + Len(batch) <= MaxEvents
       /\ Recorder(IF recorder.is_recording
                   THEN [recorder EXCEPT !.delivered = @ + Len(batch),
                                         !.listener = "callback",
                                         !.data = batch]
                   ELSE [recorder EXCEPT !.delivered = @ + Len(batch)])

\* the position of the listener once the event at the head of data is done
AfterEvent(data) == IF Len(data) > 1 THEN "callback" ELSE "enabled"

\* lines 201-218: one event of the reply
ProcessEvent ==
  /\ recorder.listener = "callback"
  /\ LET e == Head(recorder.data)
         current_time == recorder.clock + e.gap
     IN Recorder([recorder EXCEPT
          !.actions =
             IF e.kind = "click"
             THEN _add_mouse_click_action(@, current_time)
             ELSE _add_keyboard_action(@, recorder.last_action_time, current_time),
          !.last_action_time = current_time,
          !.clock = current_time,
          !.listener = IF e.kind = "click" /\ recorder.debug_mode
                       THEN "analyze" ELSE AfterEvent(recorder.data),
          !.data = IF e.kind = "click" /\ recorder.debug_mode
                   THEN @ ELSE Tail(@)])

\* lines 261-293, debug mode: after a screenshot and a text search, a
\* click_text alternative is appended when a word was found near the click
AnalyzeClick ==
  /\ recorder.listener = "analyze"
  /\ \E found \in BOOLEAN :
       Recorder([recorder EXCEPT
          !.actions =
             IF found
             THEN Append(@, [type |-> "click_text", text |-> << "w", "o", "r", "d" >>,
                             button |-> 1, timestamp |-> recorder.clock,
                             is_alternative |-> TRUE])
             ELSE @,
          !.listener = AfterEvent(recorder.data),
          !.data = Tail(@)])

\* _record_thread, lines 168-169: record_enable_context returns once the
\* context has been freed
EnableReturns ==
  /\ recorder.listener = "enabled"
  /\ recorder.frees # << >>
  /\ Recorder([recorder EXCEPT !.listener = "finally"])

\* line 176
ThreadCheckContext ==
  /\ recorder.listener = "finally"
  /\ Recorder([recorder EXCEPT
                 !.listener = IF recorder.ctx # None THEN "finally_free" ELSE "ended"])

\* line 177
ThreadFreeContext ==
  /\ recorder.listener = "finally_free"
  /\ Recorder([recorder EXCEPT !.frees = Append(@, recorder.ctx),
                               !.listener = "finally_clear"])

\* line 178
ThreadClearContext ==
  /\ recorder.listener = "finally_clear"
  /\ Recorder([recorder EXCEPT !.ctx = None, !.listener = "ended"])

NextRecorder ==
  \/ StopRecording
  \/ StopCheckContext
  \/ StopFreeContext
  \/ StopClearContext
  \/ StopJoin
  \/ NormalizeStep
  \/ Deliver
  \/ ProcessEvent
  \/ AnalyzeClick
  \/ EnableReturns
  \/ ThreadCheckContext
  \/ ThreadFreeContext
  \/ ThreadClearContext

SpecRecorder == InitRecorder /\ [][NextRecorder]_vars

\* ------------------------------------- runs that are meant to come to an end
\* looping and continuous mode off, recovery enabled, no action with an
\* on_failure block, a failure cap of 1 or the default of run_automation
InitTerminating ==
  /\ actions \in { s \in Stores : \A k \in 1..Len(s) : "on_failure" \notin DOMAIN s[k] }
  /\ loop_actions = FALSE
  /\ continuous_mode = FALSE
  /\ enable_recovery = TRUE
  /\ max_cycles = 0
  /\ max_failures \in {1, DefaultMaxFailures}
  /\ Started

\* Perform for a run followed without end: the log keeps the latest attempts
\* only and the two counters are followed up to the attempt limit, neither
\* being read by the loop (lines 222-248)
PerformWindowed ==
  /\ pc = "perform"
  /\ \E success \in PerformOutcomes(action) :
       /\ attempts' =
            Append(IF Len(attempts) + 1 < AttemptLimit THEN attempts ELSE Tail(attempts),
                   [index |-> action_index,
                    type |-> Get(action, "type", "unknown"),
                    success |-> success])
       /\ consecutive_failures' = FailuresAfter(consecutive_failures, success)
       /\ IF success
          THEN /\ stats' = [stats EXCEPT !.successful_actions =
                                           IF @ < AttemptLimit THEN @ + 1 ELSE @]
               /\ retry_count' = 0
               /\ Goto("advance")
          ELSE /\ stats' = [stats EXCEPT !.failed_actions =
                                           IF @ < AttemptLimit THEN @ + 1 ELSE @]
               /\ retry_count' = retry_count
               /\ Goto("recover")
  /\ UNCHANGED << config, action_index, action, checkpoints, branch,
                  is_running, outside >>

\* the steps of run_automation such a run can take: no cycle limit, recovery
\* enabled, and no directive that takes the index past the end of the list
NextTerminating ==
  \/ StopMaxFailures
  \/ Dispatch
  \/ PerformWindowed
  \/ Recover
  \/ Advance

\* run_automation is one thread and every call it makes returns: it always
\* takes its next step
SpecTerminating ==
  InitTerminating /\ [][NextTerminating]_vars /\ WF_vars(NextTerminating)

TypeOK ==
  /\ pc \in {"loop", "perform", "recover", "advance", "done", "resolve", "resolved",
            "call", "returned", "build", "saved", "fresh", "loaded",
            "main", "exited", "store", "record"}
  /\ action_index \in -1..Len(actions)
  /\ retry_count \in 0..AttemptLimit
  /\ consecutive_failures \in 0..AttemptLimit
  /\ branch \in {"none", "retry", "exhausted", "redirect", "jump", "failed", "disabled"}
  /\ Len(checkpoints) <= 5

\* ------------------------------------------------ reading the attempt log
Last == attempts[Len(attempts)]

\* the stored action the last attempt was made for
LastAction == actions[Last.index + 1]

\* the directive the resolver gives for the last attempted action
LastDirective == get_recovery_for_action(LastAction)

\* number of failed attempts since the most recent successful one
TrailingFailures ==
  LET n == Len(attempts)
      k == CHOOSE k \in 0..n :
             /\ \A j \in (n - k + 1)..n : ~attempts[j].success
             /\ (k < n => attempts[n - k].success)
  IN k

\* number of failed attempts at the last attempt's index that end the log
Streak ==
  LET n == Len(attempts)
      Same(j) == ~attempts[j].success /\ attempts[j].index = Last.index
      k == CHOOSE k \in 0..n :
             /\ \A j \in (n - k + 1)..n : Same(j)
             /\ (k < n => ~Same(n - k))
  IN k

\* the last failure was answered by a directive of one of the given strategies
Answered(strategies) ==
  /\ attempts # <<>>
  /\ ~Last.success
  /\ enable_recovery
  /\ LastDirective.strategy \in strategies

\* ------------------------------------------------------------------ C1
\* C1: when a failed non-required action has used up its Retry or
\* WaitAndRetry directive, the retry counter is 0 again and the loop is at
\* (index + 1) mod len(actions), index being the index of the failed action.
C1_ExhaustedRetryAdvancesByOne ==
  ( /\ pc = "loop"
    /\ Answered({"retry", "wait"})
    /\ branch = "exhausted"
    /\ ~Get(LastAction, "required", FALSE) )
  => ( /\ retry_count = 0
       /\ action_index = (Last.index + 1) % Len(actions) )

\* ------------------------------------------------------------------ C2
\* C2: a failed attempt whose directive is Abort is the last attempt of the
\* run, and after it the run is stopping or stopped, whatever the required
\* flag of the action and whatever continuous_mode.
C2_AbortStopsRun ==
  /\ \A k \in 1..Len(attempts) :
        ( /\ ~attempts[k].success
          /\ enable_recovery
          /\ get_recovery_for_action(actions[attempts[k].index + 1]).strategy = "abort" )
        => k = Len(attempts)
  /\ Answered({"abort"}) => pc \in {"recover", "done"}

\* ------------------------------------------------------------------ C3
\* C3: after a failed attempt of an action whose directive is Fallback with a
\* fallback_action, the next attempt is at the same index and performs the
\* fallback action, not the original one.
C3_FallbackIsNextAttempt ==
  \A k \in 1..(Len(attempts) - 1) :
    LET original == actions[attempts[k].index + 1]
        recovery == get_recovery_for_action(original)
    IN ( /\ ~attempts[k].success
         /\ enable_recovery
         /\ recovery.strategy = "fallback"
         /\ recovery.fallback_action # None
         /\ attempts[k].type = original.type )
       => ( /\ attempts[k + 1].index = attempts[k].index
            /\ attempts[k + 1].type = recovery.fallback_action.type )

\* ------------------------------------------------------------------ C4
\* C4: after a Skip directive for a failure at index i the loop is at
\* (i + 1) mod len(actions); when i is the last index a cycle has been
\* counted and, with looping off, the run has stopped for LoopDisabled.
C4_SkipGoesToNextWithWraparound ==
  ( /\ pc \in {"loop", "done"}
    /\ Answered({"skip"}) )
  => ( /\ action_index = (Last.index + 1) % Len(actions)
       /\ Last.index = Len(actions) - 1 =>
             /\ stats.cycles_completed >= 1
             /\ ~loop_actions => stop_reason = "LoopDisabled" )

\* ------------------------------------------------------------------ C5
\* a step in which the traversal comes back to index 0: the index is
\* advanced from the last position (line 278 or line 311)
WrapStep ==
  /\ action_index = Len(actions) - 1
  /\ action_index' = 0
  /\ \/ pc = "advance"
     \/ pc = "recover" /\ branch' = "exhausted"

\* C5: cycles_completed grows by one in exactly the steps in which the
\* traversal comes back to index 0, and is unchanged in all others.
C5_CycleCountedAtEveryWraparound ==
  [][ IF WrapStep
      THEN stats'.cycles_completed = stats.cycles_completed + 1
      ELSE stats'.cycles_completed = stats.cycles_completed ]_vars

\* ------------------------------------------------------------------ C6
\* every attempt so far succeeded
AllSucceeded == \A k \in 1..Len(attempts) : attempts[k].success

\* C6: with looping disabled and every dispatch succeeding, the attempts are
\* the actions 0, 1, ..., n-1 in this order, each once; after the n-th the
\* run stops, and it stops with cycles_completed = 1, n successes, 0 failures.
C6_OnePassWhenAllSucceed ==
  (~loop_actions /\ AllSucceeded) =>
    /\ Len(attempts) <= Len(actions)
    /\ \A k \in 1..Len(attempts) : attempts[k].index = k - 1
    /\ Len(attempts) = Len(actions) => pc \in {"advance", "done"}
    /\ pc = "done" =>
          /\ stop_reason = "LoopDisabled"
          /\ Len(attempts) = Len(actions)
          /\ stats = [successful_actions |-> Len(actions), failed_actions |-> 0,
                       cycles_completed |-> 1]

C6_Witness ==
  /\ pc = "done" /\ ~loop_actions /\ AllSucceeded
  /\ Len(actions) = 3 /\ Len(attempts) = 3

\* ------------------------------------------------------------------ C7
\* C7: with max_cycles = C > 0 and looping enabled, cycles_completed never
\* exceeds C; once it equals C the loop is at index 0 at the head of an
\* iteration or stopped, so no further action is attempted; and the run
\* stops for MaxCyclesReached only there.
C7_MaxCyclesAtCycleBoundary ==
  (max_cycles > 0 /\ loop_actions) =>
    /\ stats.cycles_completed <= max_cycles
    /\ stats.cycles_completed = max_cycles =>
          /\ pc \in {"loop", "done"}
          /\ action_index = 0
          /\ pc = "done" => stop_reason = "MaxCyclesReached"
    /\ stop_reason = "MaxCyclesReached" =>
          /\ stats.cycles_completed = max_cycles
          /\ action_index = 0

C7_Witness ==
  /\ stop_reason = "MaxCyclesReached" /\ loop_actions
  /\ max_cycles = 2 /\ Len(actions) = 2 /\ Len(attempts) >= 4

\* ------------------------------------------------------------------ C8
\* C8: the consecutive-failure counter is the number of failed attempts since
\* the most recent successful one; with a cap M > 0 it never exceeds M and no
\* action is attempted once it has reached M; with M = 0 the run never stops
\* for MaxConsecutiveFailures.
C8_ConsecutiveFailureCounter ==
  /\ [] ( /\ consecutive_failures = TrailingFailures
          /\ max_failures > 0 => consecutive_failures <= max_failures
          /\ max_failures = 0 => stop_reason # "MaxConsecutiveFailures" )
  /\ [][ (max_failures > 0 /\ consecutive_failures >= max_failures)
           => attempts' = attempts ]_vars

C8_Witness ==
  /\ Len(attempts) >= 3
  /\ Last.success
  /\ ~attempts[Len(attempts) - 1].success /\ ~attempts[Len(attempts) - 2].success
  /\ consecutive_failures = 0
  /\ max_failures = 3

\* ------------------------------------------------------------------ C9
\* recovery disabled, no action required, every attempt so far failed
AllFailingUnrecovered ==
  /\ ~enable_recovery
  /\ max_failures > 0
  /\ \A i \in 1..Len(actions) : ~Get(actions[i], "required", FALSE)
  /\ \A k \in 1..Len(attempts) : ~attempts[k].success

\* the M-th failure comes before the cycle boundary that ends the run
CapBeforeBoundary ==
  IF loop_actions
  THEN max_cycles = 0 \/ max_failures < Len(actions) * max_cycles
  ELSE max_failures < Len(actions)

\* C9 as stated: with max_failures = M > 0, recovery disabled and every
\* (non-required) action always failing, the run stops for
\* MaxConsecutiveFailures after exactly M failed attempts, whatever the
\* number of actions.
C9_Original ==
  (pc = "done" /\ AllFailingUnrecovered) =>
    /\ stop_reason = "MaxConsecutiveFailures"
    /\ stats.failed_actions = max_failures

\* C9 amended: under the same conditions at most M attempts are made; the
\* run stops for MaxConsecutiveFailures after exactly M failed attempts when
\* the M-th failure comes before the cycle boundary that ends the run (M < n
\* with looping off; max_cycles = 0 or M < n * max_cycles with looping on),
\* and otherwise stops at that boundary for LoopDisabled or MaxCyclesReached.
C9_StopsAfterMFailuresUnlessCycleEnds ==
  AllFailingUnrecovered =>
    /\ stats.failed_actions <= max_failures
    /\ pc = "done" =>
          IF CapBeforeBoundary
          THEN /\ stop_reason = "MaxConsecutiveFailures"
               /\ stats.failed_actions = max_failures
          ELSE /\ stop_reason = IF loop_actions THEN "MaxCyclesReached" ELSE "LoopDisabled"
               /\ stats.failed_actions <= max_failures

C9_Witness ==
  /\ pc = "done" /\ AllFailingUnrecovered
  /\ stop_reason = "MaxConsecutiveFailures"
  /\ max_failures = 3 /\ stats.failed_actions = 3
  /\ Len(actions) = 2 /\ loop_actions

\* ----------------------------------------------------------------- C10
\* the last attempt was a failed attempt of a required PositionClick that has
\* the default directive, with recovery enabled and continuous mode off
RequiredPositionClickFailed ==
  /\ attempts # <<>>
  /\ ~Last.success
  /\ enable_recovery
  /\ ~continuous_mode
  /\ LastAction = [type |-> "click_position", required |-> TRUE]

\* C10 as stated: such an action stops the run with RequiredActionFailed
\* after exactly 3 attempts at its index.
C10_Original ==
  (pc = "done" /\ RequiredPositionClickFailed) =>
    /\ stop_reason = "RequiredActionFailed"
    /\ Streak = 3

\* C10 amended: such an action is attempted at most 3 times in a row; the run
\* stops with RequiredActionFailed after exactly 3 attempts at its index when
\* the consecutive-failure cap leaves room for them (max_failures = 0, or the
\* failures counted before the first of the 3 attempts plus 3 do not exceed
\* max_failures), and otherwise stops earlier at that index for
\* MaxConsecutiveFailures; no other index is attempted afterwards.
C10_RequiredStopsAfterThreeUnlessCapped ==
  RequiredPositionClickFailed =>
    /\ Streak <= 3
    /\ Streak = 3 => pc \in {"recover", "done"}
    /\ pc = "done" =>
          IF max_failures = 0 \/ (consecutive_failures - Streak) + 3 <= max_failures
          THEN stop_reason = "RequiredActionFailed" /\ Streak = 3
          ELSE stop_reason = "MaxConsecutiveFailures" /\ Streak < 3

C10_Witness ==
  /\ pc = "done" /\ RequiredPositionClickFailed
  /\ stop_reason = "RequiredActionFailed"
  /\ Streak = 3
  /\ Len(actions) = 2

\* ----------------------------------------------------------------- C11
\* the last attempt was a failed attempt of a required action in continuous
\* mode, and recovery was disabled, failed or was exhausted for it
RequiredFailedInContinuousMode ==
  /\ attempts # <<>>
  /\ ~Last.success
  /\ continuous_mode
  /\ Get(LastAction, "required", FALSE)
  /\ branch \in {"disabled", "failed", "exhausted"}

\* C11: in continuous mode, after a required action failed with recovery
\* disabled, failed or exhausted, the loop is still at the index of that
\* action, and the run has not stopped for RequiredActionFailed.
C11_RequiredRetriedInPlace ==
  (pc \in {"loop", "done"} /\ RequiredFailedInContinuousMode) =>
    /\ action_index = Last.index
    /\ stop_reason # "RequiredActionFailed"

\* ----------------------------------------------------------------- C12
\* the failure of the last attempt was answered by a rewind to a checkpoint
RewoundToCheckpoint ==
  /\ pc = "loop"
  /\ Answered({"checkpoint"})
  /\ branch = "jump"

\* the action_index of the checkpoint created last among those below k
\* (-1 when there is none)
MostRecentBelow(k) ==
  LET below == { j \in 1..Len(checkpoints) : checkpoints[j] < k }
  IN IF below = {} THEN -1
     ELSE checkpoints[CHOOSE j \in below : \A i \in below : i <= j]

\* C12: a Checkpoint directive applied to a failure at index k puts the loop
\* at the action_index of the most recently created checkpoint below k, a
\* valid index strictly below k, with the retry counter at 0; and the
\* recovery step leaves the checkpoint store as it is.
C12_CheckpointRewindsToMostRecentBelow ==
  /\ [] ( RewoundToCheckpoint =>
            /\ action_index = MostRecentBelow(Last.index)
            /\ 0 <= action_index /\ action_index < Last.index
            /\ action_index < Len(actions)
            /\ retry_count = 0 )
  /\ [][ pc = "recover" => checkpoints' = checkpoints ]_vars

\* a rewind from index 6 to the checkpoint of index 0 created in the second
\* cycle, while the older checkpoint of index 5 is still stored
C12_Witness ==
  /\ RewoundToCheckpoint
  /\ Last.index = 6
  /\ action_index = 0
  /\ \E j \in 1..Len(checkpoints) : checkpoints[j] = 5

\* ----------------------------------------------------------------- C13
\* the last failure was answered by a directive that could not be applied: a
\* Fallback without fallback_action, or a Checkpoint with no checkpoint below
\* the failing index
RecoveryFailed ==
  /\ pc \in {"loop", "advance", "done"}
  /\ Answered({"fallback", "checkpoint"})
  /\ \/ LastDirective.strategy = "fallback" /\ LastDirective.fallback_action = None
     \/ LastDirective.strategy = "checkpoint" /\ MostRecentBelow(Last.index) = -1

Count(success) == Cardinality({ k \in 1..Len(attempts) : attempts[k].success = success })

C15_StopObservedAtIterationBoundary ==
  /\ [][ (is_running /\ ~is_running' /\ pc # "loop") => pc' = pc ]_vars
  /\ [][ (~is_running /\ pc = "perform") => Len(attempts') = Len(attempts) + 1 ]_vars
  /\ [][ (~is_running /\ pc # "perform") => pc' # "perform" ]_vars
  /\ [] ( pc = "done" => final_summaries = 1 /\ result = stats )

\* ----------------------------------------------------------------- C16
\* the directive the specification's table gives for a kind, times in tenths
\* of a second
KindDefault(kind) ==
  CASE kind = "click_text" ->
         [strategy |-> "wait", params |-> [max_retries |-> 3, wait_time |-> 20],
          fallback_action |-> None]
    [] kind = "click_template" ->
         [strategy |-> "wait", params |-> [max_retries |-> 3, wait_time |-> 15],
          fallback_action |-> None]
    [] kind \in {"click_position", "type_text"} ->
         [strategy |-> "retry", params |-> [max_retries |-> 2], fallback_action |-> None]
    [] OTHER ->
         [strategy |-> "retry", params |-> [max_retries |-> 1], fallback_action |-> None]

\* C16: an action whose on_failure names one of the six strategies resolves
\* to that strategy with the params given (to which only the strategy's own
\* default parameter may be added) and the fallback_action given; an action
\* without on_failure or with an unknown strategy name resolves to the
\* default of its kind.
C16_ResolverFollowsTable ==
  pc = "resolved" =>
    LET block == Get(input, "on_failure", << >>)
        given == Get(block, "params", << >>)
        known == {"retry", "wait", "fallback", "checkpoint", "skip", "abort"}
    IN IF "on_failure" \in DOMAIN input /\ "strategy" \in DOMAIN block
       THEN IF block.strategy \in known
            THEN /\ output.strategy = block.strategy
                 /\ \A k \in DOMAIN given : output.params[k] = given[k]
                 /\ DOMAIN output.params \ DOMAIN given \subseteq
                      CASE block.strategy = "retry" -> {"max_retries"}
                        [] block.strategy = "wait" -> {"wait_time"}
                        [] OTHER -> {}
                 /\ output.fallback_action = Get(block, "fallback_action", None)
            ELSE output = KindDefault(Get(input, "type", "unknown"))
       ELSE "on_failure" \notin DOMAIN input
              => output = KindDefault(Get(input, "type", "unknown"))

\* a TemplateClick with an unknown strategy name resolved to its kind default
C16_Witness ==
  /\ pc = "resolved"
  /\ input = [type |-> "click_template",
              on_failure |-> [strategy |-> "bogus", params |-> [max_retries |-> 1]]]
  /\ output.strategy = "wait"
  /\ output.params = [max_retries |-> 3, wait_time |-> 15]

\* ----------------------------------------------------------------- C17
\* the last attempt was made for a non-required TemplateClick whose template
\* file does not exist
MissingTemplateAttempted ==
  /\ attempts # <<>>
  /\ Get(LastAction, "type", "unknown") = "click_template"
  /\ Get(LastAction, "template", "") \notin Files
  /\ ~Get(LastAction, "required", FALSE)

\* C17: the attempt of a TemplateClick whose template file is missing fails,
\* is not answered by a re-attempt from a Retry or WaitAndRetry directive, and
\* does not end the run as a required-action failure, an abort or an error.
C17_MissingTemplateNotRetried ==
  MissingTemplateAttempted =>
    /\ ~Last.success
    /\ pc = "loop" => branch # "retry"
    /\ pc = "done" => stop_reason \notin {"RequiredActionFailed", "AbortDirective", "Error"}

\* ----------------------------------------------------------------- C18
\* the call was for a TextClick and the locator found no match in any capture
TextNotFound ==
  /\ pc = "returned"
  /\ Get(input.action, "type", "unknown") = "click_text"
  /\ \A k \in 1..Len(input.envs) :
       input.envs[k].capture = "image" /\ input.envs[k].text_at = NoPosition

\* C18: when the text locator finds no match in the captured window,
\* perform_action reports failure and dispatches no click; and no call
\* reports success for a click at a position the locator did not confirm.
C18_NoMatchNoClick ==
  /\ TextNotFound => (~output.success /\ output.clicks = << >>)
  /\ pc = "returned" => ~(output.success /\ output.unverified)

\* ----------------------------------------------------------------- C19
\* the store was saved and load_actions read the file it was saved to
LoadedSavedFile ==
  /\ pc = "loaded"
  /\ output.saved
  /\ output.path = input.save_as

\* C19: a store saved by save_actions and loaded by load_actions from the
\* file it was saved to comes back with the same action list, loop_actions,
\* continuous_mode and click_interval, and the load returns True; a load that
\* cannot read a JSON object from its file returns False.
C19_SaveLoadRoundTrip ==
  pc = "loaded" =>
    /\ LoadedSavedFile => (output.loaded /\ Settings = input.store)
    /\ ~(Config(files, input.load_from, input.config_manager).ok
         /\ Config(files, input.load_from, input.config_manager).doc.t = "object")
         => ~output.loaded

\* a store of two actions, one with a nested on_failure block, with settings
\* other than the defaults, has been saved and loaded through ConfigManager
C19_Witness ==
  /\ LoadedSavedFile
  /\ output.loaded
  /\ input.config_manager
  /\ Len(actions) = 2
  /\ "on_failure" \in DOMAIN actions[1]
  /\ loop_actions /\ continuous_mode /\ click_interval = 30

\* ----------------------------------------------------------------- C20
\* C20: when CLI.run has returned, the exit code is 1 if no window could be
\* resolved, the store was empty or the configuration could not be loaded;
\* it is not 0 if the run was ended by an Abort directive; it is 130 if the
\* user interrupted, also during the run; and it is 0 only if none of these
\* happened.
C20_ExitCodeReflectsOutcome ==
  pc = "exited" =>
    /\ (stop_reason = "None" /\ input.save_config = NoArg
          /\ (ResolvedWindow = 0 \/ actions = << >>)) => exit_code \in {1, 130}
    /\ stop_reason = "AbortDirective" => exit_code # 0
    /\ stop_reason = "UserInterrupt" => exit_code = 130
    /\ exit_code = 0 => stop_reason \notin {"AbortDirective", "UserInterrupt"}

\* ----------------------------------------------------------------- C21
\* C21: after any sequence of create_checkpoint calls the store holds at most
\* 5 checkpoints: all of them while no more than 5 were created, and after
\* that the 5 created last, in the order of their creation.
C21_StoreKeepsFiveMostRecent ==
  pc = "store" =>
    /\ Len(checkpoints) <= 5
    /\ checkpoints = SubSeq(input, IF Len(input) > 5 THEN Len(input) - 4 ELSE 1,
                            Len(input))

\* seven checkpoints were created, the first two evicted, and the store
\* holds indices out of order
C21_Witness ==
  /\ pc = "store"
  /\ Len(input) = 7
  /\ input[1] # input[6]
  /\ input[2] # input[7]
  /\ checkpoints = << 2, 0, 1, 0, 2 >>

\* ----------------------------------------------------------------- C22
\* C22: get_checkpoint_before_action(k) returns the stored checkpoint with
\* the greatest action_index below k, or none when none is below k.
C22_BeforeReturnsGreatestBelow ==
  (pc = "store" /\ output # None) =>
    LET below == { checkpoints[j] : j \in 1..Len(checkpoints) } \cap 0..(output.before - 1)
    IN output.found = IF below = {} THEN -1
                      ELSE CHOOSE c \in below : \A d \in below : d <= c


\* ------------------------------------------------------------------ C23
\* the loop is about to attempt again the action whose attempt just failed,
\* without having advanced: after a Retry/WaitAndRetry directive (line 281)
\* or through the continuous-mode retry of a required action (lines 299-304)
Stuck ==
  /\ pc = "loop"
  /\ attempts # <<>>
  /\ ~Last.success
  /\ Last.index = action_index
  /\ \/ branch = "retry"
     \/ /\ branch \in {"failed", "disabled"}
        /\ continuous_mode
        /\ Get(LastAction, "required", FALSE)

\* C23: no checkpoint is created while the loop re-attempts a failed action
\* at the same index, be it after a Retry/WaitAndRetry directive or through
\* the continuous-mode retry of a required action: the checkpoint store does
\* not change in a step taken while the run is stuck on that index.
C23_NoCheckpointWhileStuck ==
  [][Stuck => checkpoints' = checkpoints]_vars

\* ------------------------------------------------------------------ C24
\* max(5, ceil(n / 5))
CeilingInterval(n) ==
  IF (n + 4) \div 5 > 5 THEN (n + 4) \div 5 ELSE 5

\* C24: for every list length n >= 1 the checkpoint interval of the run is
\* max(5, ceil(n / 5)), and during forward progress a checkpoint is created
\* exactly when the loop arrives at an index that is a multiple of it.
C24_CadenceIsCeilingOfFifth ==
  [][(pc = "loop" /\ pc' = "perform")
       => /\ checkpoint_interval = CeilingInterval(Len(actions))
          /\ (checkpoints' # checkpoints)
               <=> (action_index % CeilingInterval(Len(actions)) = 0)]_vars

\* ------------------------------------------------------------------ C25
\* C25: one perform_action call on an action with retry_count = n makes at
\* most n + 1 passes of resolve + dispatch, and reports failure only after
\* n + 1 passes have failed, whatever made a pass fail (capture failure,
\* locator miss, dispatcher failure).
C25_FailureOnlyAfterAllAttempts ==
  pc = "returned"
    => /\ output.attempts <= Get(input.action, "retry_count", 0) + 1
       /\ (~output.success
             => output.attempts = Get(input.action, "retry_count", 0) + 1)

\* ------------------------------------------------------------------ C26
\* C26: for a click_text action whose text the locator finds at (x, y) on
\* the first capture, perform_action dispatches exactly one click, at
\* (x, y + 10), and reports success if and only if that click succeeded.
C26_FoundTextIsClickedOnce ==
  ( /\ pc = "returned"
    /\ Get(input.action, "type", "unknown") = "click_text"
    /\ input.envs[1].capture = "image"
    /\ input.envs[1].text_at # NoPosition )
    => LET e == input.envs[1]
           at == [x |-> e.text_at.x, y |-> e.text_at.y + 10]
       IN /\ output.clicks = << at >>
          /\ output.success <=> Clicked(e, at, at)

\* ------------------------------------------------------------------ C27
\* the listener thread has changed the recorder's list in this step
ListenerWrites ==
  /\ recorder'.actions # recorder.actions
  /\ recorder'.main = recorder.main
  /\ recorder'.i = recorder.i

\* C27: once stop_recording normalizes the timestamps, and after it has
\* returned the list, the listener thread appends no action to the list and
\* modifies none of its actions, in every interleaving of listener events
\* with the stop call; and the record context is freed exactly once.
C27_HandedOffListIsNotMutated ==
  [][pc = "record"
       => /\ recorder.main \in {"normalize", "returned"} => ~ListenerWrites
          /\ Len(recorder'.frees) <= 1
          /\ (recorder'.main = "returned" /\ recorder'.listener = "ended")
               => recorder'.frees = << Context >>]_vars

\* ------------------------------------------------------------------ C28
\* C28: in every run over a non-empty action list, whenever the loop fetches
\* the current action (line 200) the index satisfies
\* 0 <= action_index < len(actions), after any sequence of successes,
\* failures and applied recovery directives.
C28_FetchedIndexIsInRange ==
  (PassesChecks /\ actions # << >>)
    => (0 <= action_index /\ action_index < Len(actions))

\* ------------------------------------------------------------------ C29
\* C29: with looping and continuous mode off, recovery enabled with the
\* default directives only, max_failures > 0 and every dispatch call
\* returning, every run terminates: whatever the pattern of successes and
\* failures, the loop eventually reaches a stopped state.
C29_RunTerminates == <>(pc = "done")

\* ------------------------------------------------------------------ C30
\* C30: is_running is False before any run, True only while run_automation
\* is executing its loop, and False again once run_automation has returned,
\* whatever the terminal reason.
C30_RunningFlagTracksTheRun ==
  /\ pc = "main" => ~is_running
  /\ is_running => pc \in {"loop", "perform", "recover", "advance"}
  /\ pc \in {"done", "exited"} => ~is_running
====
